---- MODULE Spec2Model ----
(***************************************************************************)
(* Model of mpinterfaces/measurement.py: the derivation steps Measurement, *)
(* MeasurementSolvation and MeasurementInterface acting on calibrate       *)
(* objects ("handles").                                                    *)
(*                                                                         *)
(* A Python string is a sequence of tokens (a token is a separator, a dot, *)
(* an underscore or a run of other characters), so that str.replace and    *)
(* string concatenation are computed and not assumed.  A Python dict is a  *)
(* function over a finite set of keys.  A raised exception is the name of  *)
(* its class in the field exc of the state threaded through a method.      *)
(***************************************************************************)
EXTENDS Integers, Sequences, FiniteSets, TLC

\* ---------------------------------------------------------------- bounds
MaxHandles == 3
MaxJobs == 2
MaxRecords == 2
MaxNameLen == 2

\* ------------------------------------------------------------- utilities
Range(s) == {s[i] : i \in 1..Len(s)}

Put(d, k, v) == [x \in (DOMAIN d) \cup {k} |-> IF x = k THEN v ELSE d[x]]

EmptyDict == [x \in {} |-> 0]

Tok == <<"1", "2", "3", "4", "5", "6", "7", "8", "9">>

\* os.sep on the platform the module runs on
sep == "/"

\* str.replace(os.sep, '_').replace('.', '_') with the dot dropped instead
SanitizeDropDot(name) ==
    LET keep == SelectSeq(name, LAMBDA c : c # ".")
    IN  [i \in 1..Len(keep) |-> IF keep[i] = sep THEN "_" ELSE keep[i]]

\* name.replace(os.sep, '_').replace('.', '_')
Sanitize(name) ==
    [i \in 1..Len(name) |-> IF name[i] = sep \/ name[i] = "." THEN "_" ELSE name[i]]

\* self.job_dir + os.sep + <sanitized name> + os.sep + suffix
DerivedDir(base, name, suffix) ==
    base \o <<sep>> \o Sanitize(name) \o <<sep>> \o <<suffix>>

\* jdir + os.sep + 'CONTCAR' and the like
FileIn(dir, fname) == dir \o <<sep>> \o <<fname>>

\* default job_dir argument of each class
JobDirOf(cls) ==
    CASE cls = "Measurement" -> <<".", sep, "Measurement">>
      [] cls = "MeasurementSolvation" -> <<".", sep, "MeasurementSolvation">>
      [] cls = "MeasurementInterface" -> <<".", sep, "MeasurementInterface">>

Classes == {"Measurement", "MeasurementSolvation", "MeasurementInterface"}

\* the calibrate classes a handle can be an instance of
Kinds == {"CalibrateSlab", "CalibrateInterface", "CalibrateMolecule", "Calibrate"}

\* ------------------------------------------------------------ the inputs
\* job directory (and job name) of the i-th calibration job of handle h
Dir0(h, i) == <<"calib", Tok[h], sep, "job", ".", Tok[i]>>

\* the system (interface / slab / ligand description) handle h calibrates
Millers == << <<1, 0, 0>>, <<1, 0, 0>>, <<1, 1, 1>>, <<1, 1, 0>> >>
Formulas == <<"H4N2", "C2H3O2", "H4N2", "C2H3O2">>
SystemOf(h) ==
    [present |-> TRUE, miller_index |-> Millers[h], formula |-> Formulas[h],
     n_ligands |-> 2]
NoSystem ==
    [present |-> FALSE, miller_index |-> <<0, 0, 0>>, formula |-> "",
     n_ligands |-> 0]

\* str(list)
StrOfMiller(m) ==
    "[" \o ToString(m[1]) \o ", " \o ToString(m[2]) \o ", " \o ToString(m[3]) \o "]"

\* incar parameters of the calibration
IncarInit == [ENCUT |-> 400]

\* sol_params as the sequence of its (key, value) items in iteration order
DefaultSolParams == << <<"EB_K", 80>>, <<"TAU", 0>> >>
SolParamChoices == {DefaultSolParams, <<>>, << <<"NC", 1>> >>}

\* the characters of a key, as iterating a Python string yields them
KeyChars(k) ==
    CASE k = "EB_K" -> <<"E", "B", "_", "K">>
      [] k = "TAU" -> <<"T", "A", "U">>
      [] k = "NC" -> <<"N", "C">>

Handles == 1..MaxHandles

VARIABLES
    handles,      \* the calibrate objects: h -> its fields
    globalCal,    \* what the module-level name `cal` is bound to (0: unbound)
    files,        \* the files that exist
    dirs,         \* the directories that exist
    manifest,     \* path of a written system.json -> its content
    self,         \* the Measurement object
    pc,           \* how far the driver got
    last,         \* outcome of the last method call
    events,       \* side effects of setup(), in order
    prev,         \* the handles as they were when the step was constructed
    records,      \* what assimilating a directory yields: number of entries
    energies,     \* return value of get_energy
    E_binding,    \* the binding energies make_measurements computed
    driver        \* the class the driver instantiates

vars == <<handles, globalCal, files, dirs, manifest, self, pc, last, events,
          prev, records, energies, E_binding, driver>>

\* -------------------------------------------------------------- the start
\* a calibrate object that ran nj calibration jobs
NewHandle(h, kind, nj, hasSystem) ==
    [kind |-> kind,
     system |-> IF hasSystem THEN SystemOf(h) ELSE NoSystem,
     incar |-> IncarInit,
     poscar |-> <<>>,
     jobs |-> [i \in 1..nj |-> Dir0(h, i)],
     job_dir_list |-> [i \in 1..nj |-> Dir0(h, i)],
     old_jobs |-> <<>>,
     old_job_dir_list |-> <<>>]

\* CONTCAR and WAVECAR are in every calibration directory but those of the
\* jobs with index miss
FilesInit(nj, miss) ==
    UNION {{FileIn(Dir0(h, i), "CONTCAR"), FileIn(Dir0(h, i), "WAVECAR")} :
           h \in Handles, i \in (1..MaxJobs) \ {miss}}

NoStep ==
    [cls |-> "none", cal_objs |-> <<>>, job_dir |-> <<>>, sol_params |-> <<>>,
     cal_slabs |-> <<>>, cal_interfaces |-> <<>>, cal_ligands |-> <<>>]

NoCall == [op |-> "none", exc |-> "none", h |-> 0]

AbsentChoices == {{}} \cup {{h} : h \in Handles}

InitCommon ==
    /\ dirs = {Dir0(h, i) : h \in Handles, i \in 1..MaxJobs}
    /\ manifest = EmptyDict
    /\ self = NoStep
    /\ pc = "start"
    /\ last = NoCall
    /\ events = <<>>
    /\ prev = handles
    /\ records = <<>>
    /\ energies = <<>>
    /\ E_binding = EmptyDict

\* the driver of a generic or a solvation step: plain calibrate objects
InitPlain ==
    /\ \E nj \in [Handles -> 0..MaxJobs] :
          handles = [h \in Handles |-> NewHandle(h, "Calibrate", nj[h], FALSE)]
    /\ driver \in {"Measurement", "MeasurementSolvation"}
    /\ globalCal \in 0..MaxHandles
    /\ \E miss \in 0..MaxJobs : files = FilesInit(MaxJobs, miss)
    /\ InitCommon

\* the driver of an interface step: slabs, interfaces and ligands, every one
\* with the same number of calibration jobs
InitRoles ==
    /\ \E kinds \in [Handles -> Kinds], nj \in 0..MaxJobs, absent \in AbsentChoices :
          handles = [h \in Handles |-> NewHandle(h, kinds[h], nj, h \notin absent)]
    /\ driver = "MeasurementInterface"
    /\ globalCal \in 0..MaxHandles
    /\ \E miss \in 0..MaxJobs : files = FilesInit(MaxJobs, miss)
    /\ InitCommon

Init == InitPlain \/ InitRoles

\* ------------------------------------------------- Measurement.__init__
\* the body of `for obj in cal_objs` for the objects objs[k..]; the name
\* `cal` of line 59 is looked up in the module's globals
RECURSIVE InitLoop(_, _, _, _)
InitLoop(st, objs, k, g) ==
    IF k > Len(objs) \/ st.exc # "none" THEN st
    ELSE LET obj == objs[k]
             h1 == [st.hs EXCEPT ![obj].old_jobs = st.hs[obj].jobs,
                                 ![obj].jobs = <<>>]
         IN  IF g = 0
             THEN [st EXCEPT !.hs = h1, !.exc = "NameError"]
             ELSE LET h2 == [h1 EXCEPT ![obj].old_job_dir_list = h1[g].job_dir_list,
                                       ![obj].job_dir_list = <<>>]
                  IN  InitLoop([st EXCEPT !.hs = h2], objs, k + 1, g)

\* isinstance dispatch of MeasurementInterface.__init__
Bucket(hs, objs, kind) == SelectSeq(objs, LAMBDA h : hs[h].kind = kind)

NewStep(cls, objs, sp, hs) ==
    [cls |-> cls, cal_objs |-> objs, job_dir |-> JobDirOf(cls),
     sol_params |-> IF cls = "MeasurementSolvation" THEN sp ELSE <<>>,
     cal_slabs |-> IF cls = "MeasurementInterface"
                     THEN Bucket(hs, objs, "CalibrateSlab") ELSE <<>>,
     cal_interfaces |-> IF cls = "MeasurementInterface"
                          THEN Bucket(hs, objs, "CalibrateInterface") ELSE <<>>,
     cal_ligands |-> IF cls = "MeasurementInterface"
                       THEN Bucket(hs, objs, "CalibrateMolecule") ELSE <<>>]

St0 == [hs |-> handles, files |-> files, dirs |-> dirs, manifest |-> manifest,
        ev |-> <<>>, exc |-> "none", d |-> EmptyDict]

\* driver(cal_objs [, sol_params=sp]) called on the first n handles
Construct(n, sp) ==
    /\ pc = "start"
    /\ LET objs == [i \in 1..n |-> i]
           st == InitLoop(St0, objs, 1, globalCal)
       IN  /\ handles' = st.hs
           /\ prev' = handles
           /\ self' = IF st.exc = "none" THEN NewStep(driver, objs, sp, handles)
                      ELSE NoStep
           /\ last' = [op |-> "__init__", exc |-> st.exc, h |-> n]
           /\ pc' = IF st.exc = "none" THEN "constructed" ELSE "failed"
    /\ UNCHANGED <<globalCal, files, dirs, manifest, events, records, energies,
                   E_binding, driver>>

\* ------------------------------------------------------------ collaborators
Raise(st, e) == [st EXCEPT !.exc = e]

Emit(st, e, h, path, content) ==
    [st EXCEPT !.ev = Append(st.ev, [ev |-> e, h |-> h, path |-> path,
                                     content |-> content])]

\* the directories os.makedirs(path) leaves behind: path and its ancestors
Ancestors(path) ==
    {SubSeq(path, 1, k) : k \in {j \in 1..Len(path) :
                                   j = Len(path) \/ path[j + 1] = sep}}

\* Calibrate.add_job(job_dir=...): registers the job, named after its
\* directory, and creates the directory
add_job(st, h, job_dir) ==
    LET hs2 == [st.hs EXCEPT ![h].jobs = Append(st.hs[h].jobs, job_dir),
                             ![h].job_dir_list = Append(st.hs[h].job_dir_list, job_dir)]
    IN  Emit([st EXCEPT !.hs = hs2, !.dirs = st.dirs \cup Ancestors(job_dir)],
             "add_job", h, job_dir, EmptyDict)

\* cal.poscar = Poscar.from_file(contcar_file): IOError when there is no file
ReadPoscar(st, h, contcar_file) ==
    IF contcar_file \notin st.files THEN Raise(st, "IOError")
    ELSE [st EXCEPT !.hs[h].poscar = contcar_file]

\* if not os.path.exists(job_dir): os.makedirs(job_dir)
EnsureDir(st, h, job_dir) ==
    IF job_dir \in st.dirs THEN st
    ELSE Emit([st EXCEPT !.dirs = st.dirs \cup Ancestors(job_dir)],
              "makedirs", h, job_dir, EmptyDict)

\* with open(job_dir+os.sep+'system.json', 'w') as f: json.dump(content, f)
DumpManifest(st, h, job_dir, content) ==
    LET path == FileIn(job_dir, "system.json")
    IN  IF job_dir \notin st.dirs THEN Raise(st, "IOError")
        ELSE Emit([st EXCEPT !.files = st.files \cup {path},
                             !.manifest = Put(st.manifest, path, content)],
                  "dump", h, path, content)

\* -------------------------------------------------------- Measurement.setup
\* the body of `for i, jdir in enumerate(cal.old_job_dir_list)` from index i
RECURSIVE SetupJobs(_, _, _, _)
SetupJobs(st, base, h, i) ==
    IF st.exc # "none" \/ i > Len(st.hs[h].old_job_dir_list) THEN st
    ELSE IF i > Len(st.hs[h].old_jobs) THEN Raise(st, "IndexError")
    ELSE LET jdir == st.hs[h].old_job_dir_list[i]
             job_dir == DerivedDir(base, st.hs[h].old_jobs[i], "STATIC")
             s1 == ReadPoscar(st, h, FileIn(jdir, "CONTCAR"))
             s2 == IF s1.exc # "none" THEN s1 ELSE add_job(s1, h, job_dir)
         IN  SetupJobs(s2, base, h, i + 1)

\* the body of `for cal in self.cal_objs` from position k
RECURSIVE SetupLoop(_, _, _, _)
SetupLoop(st, base, objs, k) ==
    IF st.exc # "none" \/ k > Len(objs) THEN st
    ELSE LET h == objs[k]
             s1 == [st EXCEPT !.hs[h].incar = Put(st.hs[h].incar, "NSW", 0)]
         IN  SetupLoop(SetupJobs(s1, base, h, 1), base, objs, k + 1)

MeasurementSetup(st, me) == SetupLoop(st, me.job_dir, me.cal_objs, 1)

\* ------------------------------------------------ MeasurementSolvation.setup
\* `for k, v in self.sol_params: cal.incar[k] = v` from item j on: iterating
\* the dict yields its keys, and each key is unpacked into k and v
RECURSIVE SolParamsLoop(_, _, _, _)
SolParamsLoop(st, sp, h, j) ==
    IF st.exc # "none" \/ j > Len(sp) THEN st
    ELSE LET chars == KeyChars(sp[j][1])
         IN  IF Len(chars) # 2 THEN Raise(st, "ValueError")
             ELSE SolParamsLoop(
                    [st EXCEPT !.hs[h].incar = Put(st.hs[h].incar, chars[1], chars[2])],
                    sp, h, j + 1)

\* shutil.copy(wavecar_file, job_dir+os.sep+'WAVECAR')
CopyWavecar(st, h, wavecar_file, job_dir) ==
    IF wavecar_file \notin st.files THEN Raise(st, "IOError")
    ELSE Emit([st EXCEPT !.files = st.files \cup {FileIn(job_dir, "WAVECAR")}],
              "copy", h, FileIn(job_dir, "WAVECAR"), EmptyDict)

\* the body of `for cal in self.cal_objs` for one object
SolvationBody(st, me, h) ==
    LET s1 == [st EXCEPT !.hs[h].incar = Put(st.hs[h].incar, "LSOL", ".TRUE.")]
    IN  IF Len(s1.hs[h].old_jobs) = 0 THEN Raise(s1, "IndexError")
        ELSE
        LET job_dir == DerivedDir(me.job_dir, s1.hs[h].old_jobs[1], "SOL")
            s2 == SolParamsLoop(s1, me.sol_params, h, 1)
        IN  IF s2.exc # "none" THEN s2
            ELSE
            LET s3 == DumpManifest(EnsureDir(s2, h, job_dir), h, job_dir, me.sol_params)
            IN  IF s3.exc # "none" THEN s3
                ELSE IF Len(s3.hs[h].old_job_dir_list) = 0 THEN Raise(s3, "IndexError")
                ELSE
                LET s4 == CopyWavecar(s3, h,
                                      FileIn(s3.hs[h].old_job_dir_list[1], "WAVECAR"),
                                      job_dir)
                IN  IF s4.exc # "none" THEN s4 ELSE add_job(s4, h, job_dir)

RECURSIVE SolvationLoop(_, _, _)
SolvationLoop(st, me, k) ==
    IF st.exc # "none" \/ k > Len(me.cal_objs) THEN st
    ELSE SolvationLoop(SolvationBody(st, me, me.cal_objs[k]), me, k + 1)

SolvationSetup(st, me) == SolvationLoop(st, me, 1)

\* ------------------------------------------------ MeasurementInterface.setup
InSeq(x, s) == \E i \in 1..Len(s) : s[i] = x

\* lines 193-202: the identity written into the dict d, which is created
\* once, before the loop over the calibrate objects
TagIdentity(st, me, h) ==
    LET sys == st.hs[h].system
        d1 == IF (InSeq(h, me.cal_slabs) \/ InSeq(h, me.cal_interfaces)) /\ sys.present
              THEN Put(st.d, "hkl", sys.miller_index) ELSE st.d
        d2 == IF InSeq(h, me.cal_interfaces) /\ sys.present
              THEN Put(d1, "ligand", sys.formula) ELSE d1
    IN  [st EXCEPT !.d = d2]

RECURSIVE InterfaceJobs(_, _, _, _)
InterfaceJobs(st, me, h, i) ==
    IF st.exc # "none" \/ i > Len(st.hs[h].old_job_dir_list) THEN st
    ELSE IF i > Len(st.hs[h].old_jobs) THEN Raise(st, "IndexError")
    ELSE LET jdir == st.hs[h].old_job_dir_list[i]
             job_dir == DerivedDir(me.job_dir, st.hs[h].old_jobs[i], "STATIC")
             s1 == ReadPoscar(st, h, FileIn(jdir, "CONTCAR"))
         IN  IF s1.exc # "none" THEN s1
             ELSE LET s2 == EnsureDir(TagIdentity(s1, me, h), h, job_dir)
                      s3 == IF DOMAIN s2.d # {}
                            THEN DumpManifest(s2, h, job_dir, s2.d) ELSE s2
                  IN  InterfaceJobs(add_job(s3, h, job_dir), me, h, i + 1)

RECURSIVE InterfaceLoop(_, _, _)
InterfaceLoop(st, me, k) ==
    IF st.exc # "none" \/ k > Len(me.cal_objs) THEN st
    ELSE LET h == me.cal_objs[k]
             s1 == [st EXCEPT !.hs[h].incar = Put(st.hs[h].incar, "NSW", 0)]
         IN  InterfaceLoop(InterfaceJobs(s1, me, h, 1), me, k + 1)

InterfaceSetup(st, me) == InterfaceLoop(st, me, 1)

\* ------------------------------------------------------------------ setup()
SetupOf(st, me) ==
    CASE me.cls = "Measurement" -> MeasurementSetup(st, me)
      [] me.cls = "MeasurementSolvation" -> SolvationSetup(st, me)
      [] me.cls = "MeasurementInterface" -> InterfaceSetup(st, me)

Setup ==
    /\ pc = "constructed"
    /\ LET st == SetupOf(St0, self)
       IN  /\ handles' = st.hs
           /\ files' = st.files
           /\ dirs' = st.dirs
           /\ manifest' = st.manifest
           /\ events' = st.ev
           /\ last' = [op |-> "setup", exc |-> st.exc, h |-> 0]
           /\ pc' = IF st.exc = "none" THEN "setup" ELSE "failed"
    /\ UNCHANGED <<globalCal, self, prev, records, energies, E_binding, driver>>

\* ---------------------------------------------------------------- run()
\* what assimilating a job directory can yield: entries, some of them None
RECURSIVE EntryLists(_)
EntryLists(n) ==
    IF n = 0 THEN {<<>>}
    ELSE EntryLists(n - 1) \cup
         {Append(l, e) : l \in {x \in EntryLists(n - 1) : Len(x) = n - 1},
                         e \in {"entry", "None"}}

\* for cal in self.cal_objs: cal.run(); the jobs leave their output behind
Run ==
    /\ pc = "setup"
    /\ records' \in EntryLists(MaxRecords)
    /\ last' = [op |-> "run", exc |-> "none", h |-> 0]
    /\ pc' = "ran"
    /\ UNCHANGED <<handles, globalCal, files, dirs, manifest, self, events, prev,
                   energies, E_binding, driver>>

\* ---------------------------------------------------------- get_energy()
\* the names bound in the module's namespace once it is imported (lines 8-30
\* and the three class statements)
ModuleNames ==
    {"sys", "shutil", "os", "json", "logging", "np", "Lattice", "Structure",
     "Incar", "Poscar", "Potcar", "Kpoints", "Calibrate", "CalibrateMolecule",
     "CalibrateSlab", "CalibrateBulk", "CalibrateInterface", "Interface",
     "logger", "formatter", "sh", "Measurement", "MeasurementSolvation",
     "MeasurementInterface"}

\* bg.serial_assimilate(job_dir); bg.get_data() for the j-th directory of h
Assimilate(h, j) ==
    [k \in 1..Len(records) |->
        IF records[k] = "entry" THEN [valid |-> TRUE, energy |-> 0 - (10 * h + j + k)]
        ELSE [valid |-> FALSE, energy |-> 0]]

\* for e in allentries: if e: energies.append(e.energy)
AppendEnergies(acc, entries) ==
    acc \o [k \in 1..Len(SelectSeq(entries, LAMBDA e : e.valid)) |->
              SelectSeq(entries, LAMBDA e : e.valid)[k].energy]

\* the body of `for job_dir in cal.job_dir_list` from the j-th directory on
RECURSIVE EnergyLoop(_, _, _, _)
EnergyLoop(r, hs, h, j) ==
    IF r.exc # "none" \/ j > Len(hs[h].job_dir_list) THEN r
    ELSE IF "MPINTVaspDrone" \notin ModuleNames \/ "BorgQueen" \notin ModuleNames
         THEN [r EXCEPT !.exc = "NameError"]
         ELSE EnergyLoop([r EXCEPT !.energies = AppendEnergies(r.energies, Assimilate(h, j))],
                         hs, h, j + 1)

get_energy(hs, h) == EnergyLoop([exc |-> "none", energies |-> <<>>], hs, h, 1)

GetEnergy(h) ==
    /\ pc = "ran"
    /\ InSeq(h, self.cal_objs)
    /\ LET r == get_energy(handles, h)
       IN  /\ energies' = r.energies
           /\ last' = [op |-> "get_energy", exc |-> r.exc, h |-> h]
           /\ pc' = IF r.exc = "none" THEN "got" ELSE "failed"
    /\ UNCHANGED <<handles, globalCal, files, dirs, manifest, self, events, prev,
                   records, E_binding, driver>>

\* ---------------------------------------------------- make_measurements()
M0 == [exc |-> "none", E_slabs |-> EmptyDict, E_ligands |-> EmptyDict,
       E_interfaces |-> EmptyDict, E_binding |-> EmptyDict]

\* Measurement.make_measurements: the energies of every object, in a local
RECURSIVE BaseMeasure(_, _, _, _)
BaseMeasure(m, hs, objs, k) ==
    IF m.exc # "none" \/ k > Len(objs) THEN m
    ELSE BaseMeasure([m EXCEPT !.exc = get_energy(hs, objs[k]).exc], hs, objs, k + 1)

\* lines 218-220 (table = "E_slabs") and 221-223 (table = "E_ligands")
RECURSIVE RoleEnergies(_, _, _, _, _)
RoleEnergies(m, hs, objs, k, table) ==
    IF m.exc # "none" \/ k > Len(objs) THEN m
    ELSE LET h == objs[k]
             sys == hs[h].system
             key == IF table = "E_slabs" THEN StrOfMiller(sys.miller_index)
                    ELSE sys.formula
             r == get_energy(hs, h)
         IN  IF ~sys.present THEN [m EXCEPT !.exc = "AttributeError"]
             ELSE IF r.exc # "none" THEN [m EXCEPT !.exc = r.exc]
             ELSE RoleEnergies([m EXCEPT ![table] = Put(m[table], key, r.energies)],
                               hs, objs, k + 1, table)

\* lines 224-231: the operands of the subtraction are the lists get_energy
\* returned, and the name E_binding is assigned to without being bound
RECURSIVE BindingLoop(_, _, _, _)
BindingLoop(m, hs, objs, k) ==
    IF m.exc # "none" \/ k > Len(objs) THEN m
    ELSE LET h == objs[k]
             sys == hs[h].system
             key_slab == StrOfMiller(sys.miller_index)
             key_ligand == sys.formula
             key == key_slab \o key_ligand
             r == get_energy(hs, h)
         IN  IF ~sys.present THEN [m EXCEPT !.exc = "AttributeError"]
             ELSE IF r.exc # "none" THEN [m EXCEPT !.exc = r.exc]
             ELSE LET m1 == [m EXCEPT !.E_interfaces = Put(m.E_interfaces, key, r.energies)]
                  IN  IF key_slab \notin DOMAIN m1.E_slabs
                      THEN [m1 EXCEPT !.exc = "KeyError"]
                      ELSE [m1 EXCEPT !.exc = "TypeError"]

\* MeasurementInterface.make_measurements; line 232 formats E_binding
InterfaceMeasure(hs, me) ==
    LET m1 == RoleEnergies(M0, hs, me.cal_slabs, 1, "E_slabs")
        m2 == RoleEnergies(m1, hs, me.cal_ligands, 1, "E_ligands")
        m3 == BindingLoop(m2, hs, me.cal_interfaces, 1)
    IN  IF m3.exc # "none" THEN m3
        ELSE IF "E_binding" \notin ModuleNames THEN [m3 EXCEPT !.exc = "NameError"]
        ELSE m3

make_measurements(hs, me) ==
    CASE me.cls = "Measurement" -> BaseMeasure(M0, hs, me.cal_objs, 1)
      [] me.cls = "MeasurementSolvation" -> M0
      [] me.cls = "MeasurementInterface" -> InterfaceMeasure(hs, me)

MakeMeasurements ==
    /\ pc = "ran"
    /\ LET m == make_measurements(handles, self)
       IN  /\ E_binding' = m.E_binding
           /\ last' = [op |-> "make_measurements", exc |-> m.exc, h |-> 0]
           /\ pc' = IF m.exc = "none" THEN "measured" ELSE "failed"
    /\ UNCHANGED <<handles, globalCal, files, dirs, manifest, self, events, prev,
                   records, energies, driver>>

\* ------------------------------------------------------------ the program
Next ==
    \/ \E n \in 0..MaxHandles, sp \in SolParamChoices :
          /\ (driver # "MeasurementSolvation" => sp = DefaultSolParams)
          /\ Construct(n, sp)
    \/ Setup
    \/ Run
    \/ \E h \in Handles : GetEnergy(h)
    \/ MakeMeasurements

Spec == Init /\ [][Next]_vars

\* --------------------------------------- the driver with arbitrary job names
NameAlphabet == {"a", sep, ".", "_"}

RECURSIVE NamesUpTo(_)
NamesUpTo(n) ==
    IF n = 0 THEN {<<>>}
    ELSE NamesUpTo(n - 1) \cup
         {Append(w, c) : w \in {x \in NamesUpTo(n - 1) : Len(x) = n - 1},
                         c \in NameAlphabet}

\* one calibrate object whose two calibration jobs carry any two names; the
\* script of lines 235-286 binds `cal` to the object it hands over
InitNames ==
    /\ \E a \in NamesUpTo(MaxNameLen), b \in NamesUpTo(MaxNameLen) :
          handles = [h \in Handles |->
                       IF h = 1
                       THEN [NewHandle(1, "Calibrate", 2, FALSE) EXCEPT !.jobs = <<a, b>>]
                       ELSE NewHandle(h, "Calibrate", 0, FALSE)]
    /\ driver \in {"Measurement", "MeasurementInterface"}
    /\ globalCal = 1
    /\ files = FilesInit(MaxJobs, 0)
    /\ InitCommon

NextSetup ==
    \/ \E n \in 0..MaxHandles : Construct(n, DefaultSolParams)
    \/ Setup

SpecSanitize == InitNames /\ [][NextSetup]_vars

\* ================================================================ claims
Objs == Range(self.cal_objs)

SetupCalled == last.op = "setup"

SetupDone == last.op = "setup" /\ last.exc = "none"

\* the events of setup() that concern handle h
EventsOf(h, kinds) == {k \in 1..Len(events) : events[k].h = h /\ events[k].ev \in kinds}

AllEffects == {"add_job", "makedirs", "dump", "copy"}

\* the constructor left h with its own previous generation as the prior one
Archived(h) ==
    /\ handles[h].old_jobs = prev[h].jobs
    /\ handles[h].old_job_dir_list = prev[h].job_dir_list

AllArchived == \A h \in Range(self.cal_objs) : Archived(h)

\* C1: after setup() completes, every handle of every kind of step has as many
\* new jobs registered through add_job as it has prior job directories.
C1_OneToOne ==
    (SetupDone /\ AllArchived) =>
        \A h \in Objs :
            Cardinality(EventsOf(h, {"add_job"})) = Len(handles[h].old_job_dir_list)

\* C2: constructing a step over any list of handles completes and archives, for
\* every handle, its own jobs and job directories into old_jobs and
\* old_job_dir_list (same length, paired by index) and empties the current ones.
C2_Archive ==
    last.op = "__init__" =>
        /\ last.exc = "none"
        /\ \A h \in 1..last.h :
              /\ handles[h].old_jobs = prev[h].jobs
              /\ handles[h].old_job_dir_list = prev[h].job_dir_list
              /\ handles[h].jobs = <<>>
              /\ handles[h].job_dir_list = <<>>
              /\ Len(handles[h].old_jobs) = Len(handles[h].old_job_dir_list)

\* C3: the solvation setup() over a handle with more than one prior job
\* directory fails with UnsupportedMultiJobError, having created no directory,
\* written or copied no file and called add_job not once for it.
C3_MultiJobRejected ==
    (SetupCalled /\ AllArchived /\ self.cls = "MeasurementSolvation") =>
        \A h \in Objs :
            Len(handles[h].old_job_dir_list) > 1 =>
                /\ last.exc = "UnsupportedMultiJobError"
                /\ EventsOf(h, AllEffects) = {}

MissingContcar(h) ==
    \E i \in 1..Len(handles[h].old_job_dir_list) :
        FileIn(handles[h].old_job_dir_list[i], "CONTCAR") \notin files

\* the code defines no MissingArtifactError: the IOError of the failed read is
\* taken for it
MissingArtifact == {"MissingArtifactError", "IOError"}

\* C4: in the generic and the interface setup(), a CONTCAR missing in any
\* predecessor directory of a handle makes setup fail with the missing-artifact
\* error and no add_job call occurs for that handle, earlier directories
\* included.
C4_MissingContcar ==
    (SetupCalled /\ AllArchived
       /\ self.cls \in {"Measurement", "MeasurementInterface"}) =>
        \A h \in Objs :
            MissingContcar(h) =>
                /\ last.exc \in MissingArtifact
                /\ EventsOf(h, {"add_job"}) = {}

RolesDescribed ==
    \A h \in Range(self.cal_slabs) \cup Range(self.cal_ligands)
             \cup Range(self.cal_interfaces) : handles[h].system.present

SlabKeys == {StrOfMiller(handles[h].system.miller_index) : h \in Range(self.cal_slabs)}

LigandKeys == {handles[h].system.formula : h \in Range(self.cal_ligands)}

Correlated(h) ==
    /\ StrOfMiller(handles[h].system.miller_index) \in SlabKeys
    /\ handles[h].system.formula \in LigandKeys

MeasureCalled ==
    /\ last.op = "make_measurements"
    /\ self.cls = "MeasurementInterface"
    /\ RolesDescribed

\* the code defines no MissingCorrelationError: the KeyError of a failed table
\* lookup is taken for it
MissingCorrelation == {"MissingCorrelationError", "KeyError"}

\* C5: make_measurements() of the interface step fails with the
\* missing-correlation error, producing no binding energy, when an interface
\* has no slab entry or no ligand entry.
C5_MissingCorrelation ==
    (MeasureCalled /\ \E h \in Range(self.cal_interfaces) : ~Correlated(h)) =>
        /\ last.exc \in MissingCorrelation
        /\ DOMAIN E_binding = {}

BindingKey(h) ==
    StrOfMiller(handles[h].system.miller_index) \o handles[h].system.formula

\* the slab (ligand) handle whose energies an interface is correlated with
SlabOf(h) ==
    CHOOSE s \in Range(self.cal_slabs) :
        handles[s].system.miller_index = handles[h].system.miller_index

LigandOf(h) ==
    CHOOSE l \in Range(self.cal_ligands) :
        handles[l].system.formula = handles[h].system.formula

ExpectedBinding(h) ==
    LET ei == get_energy(handles, h).energies
        es == get_energy(handles, SlabOf(h)).energies
        el == get_energy(handles, LigandOf(h)).energies
    IN  [i \in 1..Len(ei) |-> ei[i] - es[i] - handles[h].system.n_ligands * el[i]]

\* C6: when every interface has its slab and its ligand entry,
\* make_measurements() completes and the binding energy of every interface key
\* is E_interfaces[key] - E_slabs[key_slab] - n_ligands * E_ligands[key_ligand].
C6_BindingEnergy ==
    (/\ MeasureCalled
     /\ self.cal_interfaces # <<>>
     /\ \A h \in Range(self.cal_interfaces) : Correlated(h)) =>
        /\ last.exc = "none"
        /\ \A h \in Range(self.cal_interfaces) :
              /\ BindingKey(h) \in DOMAIN E_binding
              /\ E_binding[BindingKey(h)] = ExpectedBinding(h)

\* the directories of h that yield at least one result record
Productive(h) ==
    {j \in 1..Len(handles[h].job_dir_list) :
        \E k \in 1..Len(Assimilate(h, j)) : Assimilate(h, j)[k].valid}

\* C7: get_energy(h) returns a list with one element for each current job
\* directory of h that yielded a record, whatever the number of records of a
\* directory, and does not fail.
C7_EnergyLength ==
    last.op = "get_energy" =>
        /\ last.exc = "none"
        /\ Len(energies) = Cardinality(Productive(last.h))

SingleJob(h) ==
    /\ Len(handles[h].old_jobs) = 1
    /\ Len(handles[h].old_job_dir_list) = 1
    /\ FileIn(handles[h].old_job_dir_list[1], "WAVECAR") \in files

\* C8: the solvation setup() over handles with one prior job each, with the
\* default sol_params, completes with LSOL and every solvation parameter in the
\* incar, and dumps the parameters to system.json before it calls add_job.
C8_SolvationParams ==
    (/\ SetupCalled
     /\ self.cls = "MeasurementSolvation"
     /\ self.sol_params = DefaultSolParams
     /\ self.cal_objs # <<>>
     /\ AllArchived
     /\ \A h \in Objs : SingleJob(h)) =>
        /\ last.exc = "none"
        /\ \A h \in Objs :
              /\ "LSOL" \in DOMAIN handles[h].incar
              /\ \A j \in 1..Len(self.sol_params) :
                    /\ self.sol_params[j][1] \in DOMAIN handles[h].incar
                    /\ handles[h].incar[self.sol_params[j][1]] = self.sol_params[j][2]
              /\ \E k \in EventsOf(h, {"dump"}) :
                    /\ events[k].content = self.sol_params
                    /\ \A a \in EventsOf(h, {"add_job"}) : k < a

\* C9: the manifest the interface setup() writes for a job of handle h has hkl
\* only for a slab or an interface, and then h's miller index, and ligand only
\* for an interface, and then h's ligand formula.
C9_OwnIdentity ==
    (last.op = "setup" /\ self.cls = "MeasurementInterface") =>
        \A k \in 1..Len(events) :
            events[k].ev = "dump" =>
                LET h == events[k].h
                    d == events[k].content
                IN  /\ "hkl" \in DOMAIN d =>
                          /\ InSeq(h, self.cal_slabs) \/ InSeq(h, self.cal_interfaces)
                          /\ handles[h].system.present
                          /\ d["hkl"] = handles[h].system.miller_index
                    /\ "ligand" \in DOMAIN d =>
                          /\ InSeq(h, self.cal_interfaces)
                          /\ handles[h].system.present
                          /\ d["ligand"] = handles[h].system.formula

\* C10 as stated: two distinct prior-job names of one setup() never get the
\* same new job directory.
C10_Injective ==
    SetupDone =>
        \A h \in Objs : \A i, j \in 1..Len(handles[h].old_jobs) :
            (/\ i <= Len(handles[h].job_dir_list)
             /\ j <= Len(handles[h].job_dir_list)
             /\ handles[h].old_jobs[i] # handles[h].old_jobs[j]) =>
                handles[h].job_dir_list[i] # handles[h].job_dir_list[j]

Underscored == {sep, ".", "_"}

\* two names that differ only in which of separator, dot and underscore they
\* have at some positions
Alike(a, b) ==
    /\ Len(a) = Len(b)
    /\ \A k \in 1..Len(a) : a[k] = b[k] \/ (a[k] \in Underscored /\ b[k] \in Underscored)

\* C10 (amended): two prior-job names of one setup() get the same new job
\* directory exactly when they have the same length and differ only at
\* positions where both have a separator, a dot or an underscore.
C10_InjectiveUpToUnderscore ==
    SetupDone =>
        \A h \in Objs : \A i, j \in 1..Len(handles[h].old_jobs) :
            (i <= Len(handles[h].job_dir_list) /\ j <= Len(handles[h].job_dir_list)) =>
                ((handles[h].job_dir_list[i] = handles[h].job_dir_list[j])
                    <=> Alike(handles[h].old_jobs[i], handles[h].old_jobs[j]))

\* setup() derived two different directories from two different names, one of
\* them with a separator or a dot in it
C10_Witness ==
    /\ SetupDone
    /\ \E h \in Objs : \E i, j \in 1..Len(handles[h].job_dir_list) :
          /\ handles[h].old_jobs[i] # handles[h].old_jobs[j]
          /\ \E k \in 1..Len(handles[h].old_jobs[i]) :
                handles[h].old_jobs[i][k] \in {sep, "."}
          /\ handles[h].job_dir_list[i] # handles[h].job_dir_list[j]

====
